---------------------------- MODULE Spec2Model ----------------------------
(***************************************************************************)
(* CasNum: integer arithmetic carried out by straightedge-and-compass      *)
(* constructions on exact coordinates (src/casnum).                        *)
(*                                                                         *)
(* Coordinates are exact rationals <<n, d>> in lowest terms with d > 0,    *)
(* the normal form the substrate keeps for every rational value.  The      *)
(* kernel (Point, Line, Circle, circle/line and line/line intersection)    *)
(* and the arithmetic layer (CasNum) are transcribed from the source.      *)
(* The perpendicular bisector is built in the source from the two          *)
(* circle/circle intersection points m +- (sqrt(3)/2) n of two equal       *)
(* circles (m the midpoint, n the segment turned a quarter turn); the      *)
(* Line through them has the coefficients of the Line through m +- n up    *)
(* to one common non-zero factor, and every use the source makes of such   *)
(* a Line (A == 0, B == 0, -C/B, -C/A, Cramer's rule, distance to a        *)
(* point) is unchanged by that factor.  The constructions that rest on it  *)
(* are represented by the line or point they construct.                    *)
(*                                                                         *)
(* An operation that raises yields ValueError; one that falls off its end  *)
(* yields None.  A Line through one point and a Circle through its own     *)
(* centre raise in their constructors, and the object is then the          *)
(* exception, which has no field for a caller to read.                     *)
(*                                                                         *)
(* call(f, args) is a call of the source function named f on args; the     *)
(* functions of the source call one another through it.  The statements    *)
(* of a function body are operators applied to the values computed         *)
(* before them, in the order of the source.                                *)
(*                                                                         *)
(* The exact arithmetic on coordinates (Q..., I..., Rational_...) is that  *)
(* of the sympy substrate, whose +, * and < are called through call as     *)
(* the source calls them through its operators; the Py... and Nat...       *)
(* reference operators are the host interpreter's integers.  Neither is    *)
(* code of src/casnum.                                                     *)
(*                                                                         *)
(* ViewerSpec is the command queue between the kernel and the viewer       *)
(* process (src/casnum/cas/viewer.py): a bounded FIFO whose put_nowait and *)
(* get_nowait are atomic, one producer and one consumer.  SinkSpec adds    *)
(* the generation counter of the producer and the scene the consumer       *)
(* keeps; SinkFairSpec makes each side take the steps it can take.         *)
(*                                                                         *)
(* ModSpec is CasNum.__mod__ one turn of its loop at a time, and           *)
(* ModFairSpec the same with the interpreter going on to the next          *)
(* statement.  CacheSpec is one memoized operation under                   *)
(* functools.lru_cache, a wrapper of the host library that stores a        *)
(* result once the wrapped call has returned it.                           *)
(*                                                                         *)
(* The two points of Circle.get_intersection are roots of a quadratic      *)
(* with surd coefficients; they are kept as the pair of circles and the    *)
(* sign of the radical.  sympy's zoo is the quotient <<1, 0>>.             *)
(***************************************************************************)
EXTENDS Integers, Sequences, FiniteSets, TLC

(* Bounds of the explored input space *)
MaxA == 5
MaxN == 5
MaxE == 3
MaxBase == 3
MaxP == 30
MaxTurns == 8
MaxQueue == 2
MaxCmd == 2
MaxGen == 2
MaxKey == 2

VARIABLES a, b, n, op, res, cache,
          _cmd_q, drop_policy, enable_graphics, frame, last_call,
          _gen, scene, sink
kernel_vars == <<a, b, n, op, res, cache>>
sink_vars == <<_gen, scene, sink>>
viewer_vars ==
    <<_cmd_q, drop_policy, enable_graphics, frame, last_call, sink_vars>>
vars == <<kernel_vars, viewer_vars>>

---------------------------------------------------------------------------
(* Statements run in program order: t is computed before r is           *)
Then(t, r) == CASE t = t -> r

---------------------------------------------------------------------------
(* Exact rational substrate *)

(* a call of the named function of the source on its arguments *)
RECURSIVE call(_, _)

IAbs(i) == IF i < 0 THEN -i ELSE i

RECURSIVE IGcd(_, _)
IGcd(i, j) == IF j = 0 THEN IAbs(i) ELSE IGcd(j, i % j)

Reduce(i, j, g) ==
    IF j < 0 THEN <<(-i) \div g, (-j) \div g>> ELSE <<i \div g, j \div g>>

Q(i, j) == Reduce(i, j, IGcd(i, IAbs(j)))

QInt(i) == <<i, 1>>
Q0 == <<0, 1>>
Q1 == <<1, 1>>
Q2 == <<2, 1>>

(* the common factors g, h are taken out before the products are formed *)
QAddOver(u, v, g) ==
    Q(u[1] * (v[2] \div g) + v[1] * (u[2] \div g), (u[2] \div g) * v[2])
Rational_add(u, v) == QAddOver(u, v, IGcd(u[2], v[2]))
QAdd(u, v) == call("Rational.__add__", <<u, v>>)
QNeg(u) == <<-u[1], u[2]>>
QSub(u, v) == QAdd(u, QNeg(v))
QMulOver(u, v, g, h) ==
    Q((u[1] \div g) * (v[1] \div h), (u[2] \div h) * (v[2] \div g))
Rational_mul(u, v) ==
    IF u[2] = 0 \/ v[2] = 0
    THEN Q(u[1] * v[1], u[2] * v[2])
    ELSE QMulOver(u, v, IGcd(u[1], v[2]), IGcd(v[1], u[2]))
QMul(u, v) == call("Rational.__mul__", <<u, v>>)
QDiv(u, v) == QMul(u, IF v[1] < 0 THEN <<-v[2], -v[1]>> ELSE <<v[2], v[1]>>)
QLtOver(u, v, g) == u[1] * (v[2] \div g) < v[1] * (u[2] \div g)
Rational_lt(u, v) == QLtOver(u, v, IGcd(u[2], v[2]))
QLt(u, v) == call("Rational.__lt__", <<u, v>>)
QGt(u, v) == QLt(v, u)
QAbs(u) == <<IAbs(u[1]), u[2]>>
QSq(u) == QMul(u, u)

ISqrt(i) == CHOOSE k \in 0..i : k * k <= i /\ (k + 1) * (k + 1) > i
IIsSquare(i) == i >= 0 /\ ISqrt(i) * ISqrt(i) = i
QIsSquare(u) == IIsSquare(u[1]) /\ IIsSquare(u[2])
(* sqrt of a value whose root is rational; a surd has no value here *)
QSqrt(u) == CHOOSE r \in {<<ISqrt(u[1]), ISqrt(u[2])>>} : QMul(r, r) = u

---------------------------------------------------------------------------
(* Geometric kernel *)

(* a call of one, two or three arguments that are results of calls *)
call1(f, x) == call(f, <<x>>)

call2(f, x, y) == call(f, <<x, y>>)

call3(f, x, y, z) == call(f, <<x, y, z>>)

(* a raise leaves the operation with the exception *)
ValueError == [tag |-> "ValueError"]
NameError == [tag |-> "NameError"]

Point(x, y) == [x |-> x, y |-> y]

Point_isEqual(p, q) == p.x = q.x /\ p.y = q.y

dist(p1, p2) ==
    Then(<<p1, p2>>,
         QSqrt(QAdd(QSq(QSub(p1.x, p2.x)), QSq(QSub(p1.y, p2.y)))))

Line(p1, p2) ==
    IF Then(<<p1, p2>>, QSub(p1.y, p2.y) = Q0 /\ QSub(p2.x, p1.x) = Q0)
    THEN ValueError
    ELSE [p1 |-> p1,
          p2 |-> p2,
          A |-> QSub(p1.y, p2.y),
          B |-> QSub(p2.x, p1.x),
          C |-> QSub(QMul(p1.x, p2.y), QMul(p2.x, p1.y))]

get_slope(l) == QDiv(QSub(l.p2.y, l.p1.y), QSub(l.p2.x, l.p1.x))

get_intercept(l) == QSub(l.p1.y, QMul(get_slope(l), l.p1.x))

at(l, x) == Point(x, QAdd(QMul(get_slope(l), x), get_intercept(l)))

dist_from_point(l, p) ==
    Then(<<l, p>>,
         QDiv(QAbs(QAdd(QAdd(QMul(l.A, p.x), QMul(l.B, p.y)), l.C)),
              QSqrt(QAdd(QSq(l.A), QSq(l.B)))))

(* sympy's infinity, the quotient of one by zero *)
zoo == <<1, 0>>

is_at_inf(p) == p.x[2] = 0 \/ p.y[2] = 0

(* Cramer's rule on the determinant d *)
cramer(l1, l2, d) ==
    Point(QDiv(QAdd(QMul(l2.B, QNeg(l1.C)), QMul(l1.B, l2.C)), d),
          QDiv(QSub(QMul(l2.A, l1.C), QMul(l1.A, l2.C)), d))

(* on parallel lines the source reads the name zoo, which line.py does    *)
(* not import                                                             *)
Line_get_intersection(l1, l2) ==
    IF Then(<<l1, l2>>, QSub(QMul(l1.A, l2.B), QMul(l1.B, l2.A)) = Q0)
    THEN NameError
    ELSE cramer(l1, l2, QSub(QMul(l1.A, l2.B), QMul(l1.B, l2.A)))

Circle(center, other_point) ==
    IF Then(<<center, other_point>>, Point_isEqual(center, other_point))
    THEN ValueError
    ELSE [center |-> center,
          other_point |-> other_point,
          radius |-> call("dist", <<center, other_point>>)]

get_circle(center, radius) ==
    Then(<<center, radius>>,
         call("Circle", <<center, Point(QSub(center.x, radius), center.y)>>))

TypeError == [tag |-> "TypeError"]

(* a list the source returns *)
List(ret) == [tag |-> "list", ret |-> ret]

(* Point(x1, y1) and Point(x2, y2) of Circle.get_intersection: y1 and y2  *)
(* are the two roots of one quadratic, told apart by the sign of its      *)
(* radical, and x1, x2 the abscissas matched to them; the point is kept   *)
(* as the two circles and that sign                                       *)
root_point(c1, c2, sign) ==
    [tag |-> "root", c1 |-> c1, c2 |-> c2, sign |-> sign]

(* the quotients y1 and y2 have the squared distance of the centres as    *)
(* their denominator; on equal centres they are not numbers, and their    *)
(* comparison in are_expressions_approx_equal raises                      *)
two_roots(c1, c2) ==
    IF Point_isEqual(c1.center, c2.center)
    THEN TypeError
    ELSE List(<<root_point(c1, c2, -1), root_point(c1, c2, 1)>>)

delta_x(c1, center_line) ==
    QSqrt(QDiv(QSq(c1.radius), QAdd(Q1, QSq(get_slope(center_line)))))

tangent_point(c1, c2, center_line) ==
    IF QLt(c1.center.x, c2.center.x)
    THEN at(center_line, QAdd(c1.center.x, delta_x(c1, center_line)))
    ELSE at(center_line, QSub(c1.center.x, delta_x(c1, center_line)))

centres_apart(c1, c2, d) ==
    IF QLt(d, QAdd(c1.radius, c2.radius))
    THEN two_roots(c1, c2)
    ELSE IF QSub(d, QAdd(c1.radius, c2.radius)) = Q0
         THEN List(<<tangent_point(c1, c2,
                                   call("Line", <<c1.center, c2.center>>))>>)
         ELSE List(<<>>)

Circle_get_intersection(c1, c2) ==
    centres_apart(c1, c2, call("dist", <<c1.center, c2.center>>))

(* the radicand of the slope-form quadratic of intersect_with_line, for   *)
(* a line of slope m and intercept k                                      *)
slope_disc(c, m, k) ==
    QAdd(QSub(QSub(QSub(QAdd(QNeg(QMul(QSq(c.center.x), QSq(m))),
                             QMul(QMul(Q2, c.center.y),
                                  QAdd(QMul(c.center.x, m), k))),
                        QMul(QMul(Q2, c.center.x), QMul(k, m))),
                   QSq(c.center.y)),
              QSq(k)),
         QAdd(QSq(QMul(m, c.radius)), QSq(c.radius)))

slope_x(c, m, k, sign) ==
    QDiv(QSub(QAdd(QAdd(QMul(sign, QSqrt(slope_disc(c, m, k))), c.center.x),
                   QMul(c.center.y, m)),
              QMul(k, m)),
         QAdd(QSq(m), Q1))

slope_root(c, l, sign) == slope_x(c, get_slope(l), get_intercept(l), sign)

(* the two points at the offsets +s and -s from the centre, on the line   *)
(* y = v (A == 0) and on the line x = v (B == 0)                          *)
chord_A0(c, y, xs) ==
    <<Point(QAdd(c.center.x, xs), y), Point(QSub(c.center.x, xs), y)>>

chord_B0(c, x, ys) ==
    <<Point(x, QAdd(c.center.y, ys)), Point(x, QSub(c.center.y, ys))>>

half_chord(c, v, cv) == QSqrt(QSub(QSq(c.radius), QSq(QSub(v, cv))))

two_points(c, l) ==
    IF l.A = Q0
    THEN chord_A0(c, QDiv(QNeg(l.C), l.B),
                  half_chord(c, QDiv(QNeg(l.C), l.B), c.center.y))
    ELSE IF l.B = Q0
    THEN chord_B0(c, QDiv(QNeg(l.C), l.A),
                  half_chord(c, QDiv(QNeg(l.C), l.A), c.center.x))
    ELSE <<at(l, slope_root(c, l, QInt(-1))), at(l, slope_root(c, l, Q1))>>

one_point(c, l) ==
    IF l.A = Q0
    THEN <<Point(c.center.x, QDiv(QNeg(l.C), l.B))>>
    ELSE IF l.B = Q0
    THEN <<Point(QDiv(QNeg(l.C), l.A), c.center.y)>>
    ELSE <<at(l, slope_root(c, l, QInt(-1)))>>

points_at(c, l, d) ==
    IF QLt(d, c.radius) THEN two_points(c, l)
    ELSE IF QSub(d, c.radius) = Q0 THEN one_point(c, l)
    ELSE <<>>

intersect_with_line(c, l) ==
    Then(<<c, l>>, points_at(c, l, call("dist_from_point", <<l, c.center>>)))

---------------------------------------------------------------------------
(* Construction toolbox *)

(* the Line through m + n and m - n *)
line_about(mx, my, nx, ny) ==
    call("Line",
         <<Point(QAdd(mx, nx), QAdd(my, ny)),
           Point(QSub(mx, nx), QSub(my, ny))>>)

(* the bisector of p1 p2: the Line through m +- n, m the midpoint and n   *)
(* the segment p1 p2 turned a quarter turn                                *)
get_perpendicular_bisector(l) ==
    Then(l,
         line_about(QDiv(QAdd(l.p1.x, l.p2.x), Q2),
                    QDiv(QAdd(l.p1.y, l.p2.y), Q2),
                    QSub(l.p1.y, l.p2.y),
                    QSub(l.p2.x, l.p1.x)))

get_midpoint(l) ==
    Then(l,
         call2("Line_get_intersection",
               l,
               call("get_perpendicular_bisector", <<l>>)))

(* the line through p square to l, in both branches of the source: off    *)
(* the line it joins p to its mirror image, on the line it bisects the    *)
(* 60-degree chord above p                                                *)
get_perpendicular_to_line_through_point(p, l) ==
    Then(<<p, l>>, call("Line", <<p, Point(QAdd(p.x, l.A), QAdd(p.y, l.B))>>))

(* the circle about p through the foot p_tag meets l_perp in p_tag and    *)
(* in its image 2p - p_tag                                                *)
diameter(p, p_tag) ==
    Then(p_tag,
         call("Line",
              <<p_tag,
                Point(QSub(QMul(Q2, p.x), p_tag.x),
                      QSub(QMul(Q2, p.y), p_tag.y))>>))

get_parallel_to_line_through_point(p, l) ==
    Then(<<p, l>>,
         call1("get_perpendicular_bisector",
               diameter(
                   p,
                   call2("Line_get_intersection",
                         l,
                         call("get_perpendicular_to_line_through_point",
                              <<p, l>>)))))

get_y_axis(o, u) == call2("get_perpendicular_to_line_through_point",
                          o,
                          call("Line", <<o, u>>))

(* p1, p2 = inter; p2 if p1.isEqual(p) else p1 *)
second_if_first_is(inter, p) ==
    Then(inter, IF Point_isEqual(inter[1], p) THEN inter[2] ELSE inter[1])

(* p1, p2 = inter; p1 if p2.isEqual(p) else p2 *)
first_if_second_is(inter, p) ==
    Then(inter, IF Point_isEqual(inter[2], p) THEN inter[1] ELSE inter[2])

mirror_in(p, l, l_perp) ==
    Then(l_perp,
         second_if_first_is(
             call2("intersect_with_line",
                   call2("Circle",
                         call("Line_get_intersection", <<l, l_perp>>),
                         p),
                   l_perp),
             p))

mirror_point(p, l) ==
    mirror_in(p, l, call("get_perpendicular_to_line_through_point", <<p, l>>))

mirror_point_on_x_axis(p, o) ==
    IF Point_isEqual(p, o)
    THEN o
    ELSE first_if_second_is(call2("intersect_with_line",
                                  call("Circle", <<o, p>>),
                                  call("Line", <<o, p>>)), p)

double_point_on_x_axis(o, p) ==
    IF Point_isEqual(p, o)
    THEN o
    ELSE first_if_second_is(call2("intersect_with_line",
                                  call("Circle", <<p, o>>),
                                  call("Line", <<o, p>>)), o)

half_point_on_x_axis(o, p) ==
    IF Point_isEqual(p, o)
    THEN o
    ELSE call1("get_midpoint", call("Line", <<o, p>>))

---------------------------------------------------------------------------
(* Module constants of casnum.py *)

origin == Point(Q0, Q0)
unit == Point(Q1, Q0)
x_axis == call("Line", <<origin, unit>>)
y_axis == call("get_y_axis", <<origin, unit>>)

---------------------------------------------------------------------------
(* CasNum values and outcomes *)

CasNum(p) == [tag |-> "num", p |-> p]
None == [tag |-> "None"]
Surd(p) == [tag |-> "surd", p |-> p]
Raised(v) == v.tag = "ValueError"

zero == CasNum(origin)
one == CasNum(unit)

isEqual(self, other) == Point_isEqual(self.p, other.p)
__gt__(self, other) == QGt(self.p.x, other.p.x)
__lt__(self, other) == __gt__(other, self)
__ge__(self, other) == __gt__(self, other) \/ isEqual(self, other)
__le__(self, other) == __ge__(other, self)
__eq__(self, other) == Point_isEqual(self.p, other.p)
__ne__(self, other) == ~__eq__(self, other)

copy(x) == CasNum(x.p)

mul2(x) == Then(x, CasNum(call("double_point_on_x_axis", <<origin, x.p>>)))

(* __neg__ leaving the point where it is *)
neg_kept(self) == self

__neg__(self) ==
    Then(self, CasNum(call("mirror_point_on_x_axis", <<self.p, origin>>)))

(* p1, p2 = inter; p1 if p1.x > p2.x else p2, and its likes *)
larger_x(inter) ==
    Then(inter, IF QGt(inter[1].x, inter[2].x) THEN inter[1] ELSE inter[2])

smaller_x(inter) ==
    Then(inter, IF QLt(inter[1].x, inter[2].x) THEN inter[1] ELSE inter[2])

larger_y(inter) ==
    Then(inter, IF QGt(inter[1].y, inter[2].y) THEN inter[1] ELSE inter[2])

positive_x(inter) ==
    Then(inter, IF QGt(inter[1].x, Q0) THEN inter[1] ELSE inter[2])

(* the end of the segment laid off from self that lies on other's side *)
add_pick(other, inter) ==
    IF __gt__(other, zero) THEN CasNum(larger_x(inter))
    ELSE CasNum(smaller_x(inter))

(* __add__ answering a zero self with self instead of other *)
add_self_kept(self, other) ==
    IF __eq__(self, zero) THEN copy(self)
    ELSE IF __eq__(other, zero) THEN copy(self)
    ELSE IF __eq__(self, other) THEN call("mul2", <<self>>)
    ELSE add_pick(other,
                  call2("intersect_with_line",
                        call2("get_circle",
                              self.p,
                              call("dist", <<origin, other.p>>)),
                        x_axis))

__add__(self, other) ==
    IF __eq__(self, zero) THEN copy(other)
    ELSE IF __eq__(other, zero) THEN copy(self)
    ELSE IF __eq__(self, other) THEN call("mul2", <<self>>)
    ELSE add_pick(other,
                  call2("intersect_with_line",
                        call2("get_circle",
                              self.p,
                              call("dist", <<origin, other.p>>)),
                        x_axis))

__sub__(self, other) ==
    IF isEqual(self, other)
    THEN copy(zero)
    ELSE call2("__add__", self, call("__neg__", <<other>>))

abs(x) == IF __lt__(x, zero) THEN call("__neg__", <<x>>) ELSE x

two == call("__add__", <<one, one>>)

RECURSIVE double_until_gt_loop(_, _, _)
double_until_gt_loop(x, to_rem, strict) ==
    IF __gt__(x, to_rem) \/ (~strict /\ __eq__(x, to_rem))
    THEN double_until_gt_loop(x, call("mul2", <<to_rem>>), strict)
    ELSE to_rem

(* double_until_gt doubling also while a == to_rem *)
double_until_above(x, y, strict) ==
    Then(<<x, y>>, double_until_gt_loop(x, copy(y), FALSE))

double_until_gt(x, y, strict) ==
    Then(<<x, y>>, double_until_gt_loop(x, copy(y), strict))

RECURSIVE mod_loop(_, _)
(* one turn of the loop of __mod__ on the multiple to_rem of abs_b *)
mod_step(remainder, abs_b, to_rem) ==
    IF __gt__(remainder, zero)
    THEN mod_loop(call("__sub__", <<remainder, to_rem>>), abs_b)
    ELSE mod_loop(call("__add__", <<remainder, to_rem>>), abs_b)

mod_loop(remainder, abs_b) ==
    IF Then(<<remainder, abs_b>>, __ge__(call("abs", <<remainder>>), abs_b))
    THEN mod_step(remainder, abs_b,
                  call3("double_until_gt",
                        call("abs", <<remainder>>),
                        abs_b,
                        TRUE))
    ELSE remainder

(* mod_sign without its two adjustments: the loop's remainder as it is *)
mod_sign_kept(other, abs_b, remainder) == remainder

(* the remainder takes the sign of the modulus *)
mod_sign(other, abs_b, remainder) ==
    IF Then(<<abs_b, remainder>>,
            __lt__(other, zero) /\ __gt__(remainder, zero))
    THEN call("__sub__", <<remainder, abs_b>>)
    ELSE IF __gt__(other, zero) /\ __lt__(remainder, zero)
    THEN call("__add__", <<remainder, abs_b>>)
    ELSE remainder

mod_from(self, other, abs_b) ==
    mod_sign(other, abs_b, mod_loop(copy(self), abs_b))

__mod__(self, other) ==
    IF isEqual(other, zero)
    THEN ValueError
    ELSE mod_from(self, other, call("abs", <<other>>))

(* a_cpy = copy(a); if a_cpy < zero: a_cpy = -a_cpy *)
unsigned(x) ==
    IF __lt__(copy(x), zero) THEN call("__neg__", <<copy(x)>>) ELSE copy(x)

(* if self < zero: ret = -ret; if other < zero: ret = -ret *)
flip_if_neg(ret, x) ==
    Then(ret, IF __lt__(x, zero) THEN call("__neg__", <<ret>>) ELSE ret)

(* signed without the flip for a negative other *)
signed_once(ret, self, other) == flip_if_neg(ret, self)

signed(ret, self, other) == flip_if_neg(flip_if_neg(ret, self), other)

(* the point of the y axis above the origin, as far from it as p is *)
to_y_axis(p) ==
    larger_y(call2("intersect_with_line",
                   call("Circle", <<origin, p>>),
                   y_axis))

(* the point of the x axis right of the origin, as far from it as p is *)
to_x_axis(p) ==
    CasNum(positive_x(call2("intersect_with_line",
                            call("Circle", <<origin, p>>),
                            x_axis)))

div_construct(a_cpy, b_cpy, neg_unit) ==
    to_x_axis(call2("Line_get_intersection",
                    y_axis,
                    call2("get_parallel_to_line_through_point",
                          neg_unit,
                          call("Line", <<to_y_axis(a_cpy.p), b_cpy.p>>))))

div_unsigned(self, other, a_cpy, b_cpy) ==
    IF Then(<<a_cpy, b_cpy>>, __eq__(a_cpy, zero)) THEN copy(zero)
    ELSE IF __eq__(b_cpy, zero) THEN copy(zero)
    ELSE signed(div_construct(a_cpy, b_cpy,
                              call("mirror_point_on_x_axis",
                                   <<unit, origin>>)), self, other)

(* __truediv__ without its test for a zero divisor *)
truediv_unchecked(self, other) ==
    div_unsigned(self, other, unsigned(self), unsigned(other))

__truediv__(self, other) ==
    IF Then(<<self, other>>, isEqual(other, zero))
    THEN ValueError
    ELSE div_unsigned(self, other, unsigned(self), unsigned(other))

floordiv_from(self, other, temp) ==
    IF Raised(temp) THEN temp
    ELSE call2("__truediv__", call("__sub__", <<self, temp>>), other)

__floordiv__(self, other) ==
    floordiv_from(self, other, call("__mod__", <<self, other>>))

mul_construct(a_cpy, b_cpy, neg_unit) ==
    to_x_axis(call2("Line_get_intersection",
                    y_axis,
                    call2("get_parallel_to_line_through_point",
                          b_cpy.p,
                          call("Line", <<to_y_axis(a_cpy.p), neg_unit>>))))

mul_unsigned(self, other, a_cpy, b_cpy) ==
    IF Then(<<a_cpy, b_cpy>>, isEqual(a_cpy, zero)) THEN copy(zero)
    ELSE IF isEqual(b_cpy, zero) THEN copy(zero)
    ELSE signed(mul_construct(a_cpy, b_cpy,
                              call("mirror_point",
                                   <<unit, y_axis>>)), self, other)

__mul__(self, other) ==
    IF Then(<<self, other>>, isEqual(other, one)) THEN self
    ELSE IF isEqual(self, one) THEN other
    ELSE mul_unsigned(self, other, unsigned(self), unsigned(other))

(* one turn of the loop of __rshift__ *)
halve(cpy_a) ==
    IF isEqual(call("__mod__", <<cpy_a, two>>), zero)
    THEN CasNum(call("half_point_on_x_axis", <<origin, cpy_a.p>>))
    ELSE CasNum(call2("half_point_on_x_axis",
                      origin,
                      call("__sub__", <<cpy_a, one>>).p))

RECURSIVE rshift_loop(_, _)
rshift_loop(cpy_a, i) ==
    IF Then(cpy_a, i <= 0) THEN cpy_a ELSE rshift_loop(halve(cpy_a), i - 1)

__rshift__(self, i) == rshift_loop(copy(self), i)

RECURSIVE lshift_loop(_, _)
lshift_loop(cpy_a, i) ==
    IF Then(cpy_a, i <= 0)
    THEN cpy_a
    ELSE lshift_loop(call("mul2", <<cpy_a>>), i - 1)

(* __lshift__ with the shift left out *)
lshift_dropped(self, i) == copy(self)

__lshift__(self, i) == lshift_loop(copy(self), i)

floor(x) == call("__floordiv__", <<x, one>>)

RECURSIVE pow_loop(_, _, _)
pow_loop(self, cpy_a, cpy_b) ==
    IF Then(<<cpy_a, cpy_b>>, __gt__(cpy_b, zero))
    THEN pow_loop(self, call("__mul__", <<cpy_a, self>>),
                  call("__sub__", <<cpy_b, one>>))
    ELSE cpy_a

(* __pow__ without its answer for a zero exponent *)
pow_zero_skipped(self, other) ==
    IF __lt__(other, zero) THEN ValueError
    ELSE IF __ne__(floor(other), other) THEN ValueError
    ELSE pow_loop(self, copy(self), call("__sub__", <<other, one>>))

__pow__(self, other) ==
    IF __lt__(other, zero) THEN ValueError
    ELSE IF __ne__(floor(other), other) THEN ValueError
    ELSE IF __eq__(other, zero) THEN one
    ELSE pow_loop(self, copy(self), call("__sub__", <<other, one>>))

(* if x > n: x = x % n *)
reduce_gt(x, m) ==
    IF Then(x, __gt__(x, m)) THEN call("__mod__", <<x, m>>) ELSE x

RECURSIVE pow_mod_loop(_, _, _, _)
(* the end of one turn of the loop of pow_mod; a raise leaves the loop *)
pow_mod_next(result, base, b_cpy, m) ==
    IF Raised(result) THEN result
    ELSE IF Raised(base) THEN base
    ELSE pow_mod_loop(result, base, call("__rshift__", <<b_cpy, 1>>), m)

pow_mod_loop(result, base, b_cpy, m) ==
    IF Then(<<result, base, b_cpy>>, __gt__(b_cpy, zero))
    THEN pow_mod_next(IF isEqual(call("__mod__", <<b_cpy, two>>), one)
                      THEN reduce_gt(call("__mul__", <<result, base>>), m)
                      ELSE result,
                      reduce_gt(call("__mul__", <<base, base>>), m),
                      b_cpy, m)
    ELSE result

pow_mod(x, y, m) == pow_mod_loop(one, x, copy(y), m)

(* bin(i)[2:], most significant digit first *)
RECURSIVE bin(_)
bin(i) == IF i < 2 THEN <<i>> ELSE Append(bin(i \div 2), i % 2)

RECURSIVE get_n_loop(_, _, _, _)
get_n_loop(bin_str, k, ret, cur) ==
    IF Then(<<ret, cur>>, k < 1) THEN ret
    ELSE get_n_loop(bin_str, k - 1,
                    IF bin_str[k] = 1
                    THEN call("__add__", <<ret, cur>>)
                    ELSE ret,
                    call("mul2", <<cur>>))

(* get_n_of without the negation of a negative n *)
get_n_of_magnitude(invert, bin_str) ==
    get_n_loop(bin_str, Len(bin_str), copy(zero), CasNum(unit))

get_n_of(invert, bin_str) ==
    IF invert
    THEN call("__neg__",
              <<get_n_loop(bin_str, Len(bin_str), copy(zero), CasNum(unit))>>)
    ELSE get_n_loop(bin_str, Len(bin_str), copy(zero), CasNum(unit))

get_n(i) == get_n_of(i < 0, bin(IAbs(i)))

RECURSIVE generate_n_loop(_, _, _, _)
(* one turn of the loop of generate_n on the points p1, p2 of inter *)
generate_n_turn(k, l, p_cur, p_prev, inter) ==
    Then(inter,
         IF Point_isEqual(p_prev, inter[1])
         THEN generate_n_loop(k - 1, l, inter[2], p_cur)
         ELSE generate_n_loop(k - 1, l, inter[1], p_cur))

(* generate_n_loop returning p_cur *)
generate_n_cur(k, l, p_cur, p_prev) ==
    IF k = 0
    THEN p_cur
    ELSE generate_n_turn(k, l, p_cur, p_prev,
                         call2("intersect_with_line",
                               call("Circle", <<p_cur, p_prev>>),
                               l))

(* for _ in range(n), with k turns left; return p_prev *)
generate_n_loop(k, l, p_cur, p_prev) ==
    IF k = 0
    THEN p_prev
    ELSE generate_n_turn(k, l, p_cur, p_prev,
                         call2("intersect_with_line",
                               call("Circle", <<p_cur, p_prev>>),
                               l))

generate_n(i, o, u) == generate_n_loop(i, call("Line", <<o, u>>), u, o)

from_num(i) ==
    IF i > 0
    THEN CasNum(call("generate_n", <<i, origin, unit>>))
    ELSE CasNum(Point(Q0, Q0))

(* Point(-p.x, p.y) *)
flip_x(p) == Point(QNeg(p.x), p.y)

(* the tests' constructor of the CasNum of a host integer *)
cn(i) ==
    IF i >= 0
    THEN call("get_n", <<i>>)
    ELSE CasNum(flip_x(call("get_n", <<-i>>).p))

(* gcd_return without the absolute value *)
gcd_return_raw(cpy_a) == cpy_a

(* return CasNum.abs(cpy_a) *)
gcd_return(cpy_a) == call("abs", <<cpy_a>>)

RECURSIVE gcd_loop(_, _)
gcd_loop(cpy_a, cpy_b) ==
    IF Then(<<cpy_a, cpy_b>>, ~isEqual(cpy_b, zero))
    THEN gcd_loop(cpy_b, call("__mod__", <<cpy_a, cpy_b>>))
    ELSE gcd_return(cpy_a)

gcd(x, y) == gcd_loop(copy(x), copy(y))

RECURSIVE inv_mod_loop(_, _, _, _, _, _, _)
(* one turn of the loop of inv_mod on the quotient temp1 *)
inv_mod_step(i, m, temp_n, d, x1, x2, y1, temp1) ==
    Then(temp1,
         inv_mod_loop(
             call2("__sub__", temp_n, call("__mul__", <<temp1, i>>)),
             m,
             i,
             y1,
             call2("__sub__", x2, call("__mul__", <<temp1, x1>>)),
             x1,
             call2("__sub__", d, call("__mul__", <<temp1, y1>>))))

(* inv_mod_return without the final reduction modulo n *)
inv_mod_return_raw(temp_n, d, m) == IF __eq__(temp_n, one) THEN d ELSE None

(* if temp_n == one: return d % n; the function falls off its end otherwise *)
inv_mod_return(temp_n, d, m) ==
    IF __eq__(temp_n, one) THEN call("__mod__", <<d, m>>) ELSE None

inv_mod_loop(i, m, temp_n, d, x1, x2, y1) ==
    IF Then(<<i, temp_n, d, x1, x2, y1>>, __gt__(i, zero))
    THEN inv_mod_step(i, m, temp_n, d, x1, x2, y1,
                      call("__floordiv__", <<temp_n, i>>))
    ELSE inv_mod_return(temp_n, d, m)

inv_mod(i, m) == inv_mod_loop(i, m, m, zero, one, zero, one)

RECURSIVE xor_positive_loop(_, _, _, _)
(* the end of one turn of the loop of xor_positive *)
xor_positive_next(result, power_of_2, a_temp, b_temp, xor_bit) ==
    xor_positive_loop(IF __eq__(xor_bit, one)
                      THEN call("__add__", <<result, power_of_2>>)
                      ELSE result,
                      call("mul2", <<power_of_2>>),
                      call("__rshift__", <<a_temp, 1>>),
                      call("__rshift__", <<b_temp, 1>>))

xor_positive_loop(result, power_of_2, a_temp, b_temp) ==
    IF Then(<<result, power_of_2, a_temp, b_temp>>,
            __gt__(a_temp, zero) \/ __gt__(b_temp, zero))
    THEN xor_positive_next(result, power_of_2, a_temp, b_temp,
                           call2("__add__",
                                 call("__mod__", <<a_temp, two>>),
                                 call("__mod__", <<b_temp, two>>)))
    ELSE result

xor_positive(x, y) ==
    IF __lt__(x, zero) \/ __lt__(y, zero)
    THEN ValueError
    ELSE xor_positive_loop(copy(zero), copy(one), copy(x), copy(y))

RECURSIVE and_positive_loop(_, _, _, _)
(* and_positive_next adding the power of two on a bit sum of one *)
and_positive_next_on_one(result, power_of_2, a_temp, b_temp, and_bit) ==
    and_positive_loop(IF __eq__(and_bit, one)
                      THEN call("__add__", <<result, power_of_2>>)
                      ELSE result,
                      call("mul2", <<power_of_2>>),
                      call("__rshift__", <<a_temp, 1>>),
                      call("__rshift__", <<b_temp, 1>>))

(* the end of one turn of the loop of and_positive *)
and_positive_next(result, power_of_2, a_temp, b_temp, and_bit) ==
    and_positive_loop(IF __eq__(and_bit, two)
                      THEN call("__add__", <<result, power_of_2>>)
                      ELSE result,
                      call("mul2", <<power_of_2>>),
                      call("__rshift__", <<a_temp, 1>>),
                      call("__rshift__", <<b_temp, 1>>))

and_positive_loop(result, power_of_2, a_temp, b_temp) ==
    IF Then(<<result, power_of_2, a_temp, b_temp>>,
            __gt__(a_temp, zero) \/ __gt__(b_temp, zero))
    THEN and_positive_next(result, power_of_2, a_temp, b_temp,
                           call2("__add__",
                                 call("__mod__", <<a_temp, two>>),
                                 call("__mod__", <<b_temp, two>>)))
    ELSE result

and_positive(x, y) ==
    IF __lt__(x, zero) \/ __lt__(y, zero)
    THEN ValueError
    ELSE and_positive_loop(copy(zero), copy(one), copy(x), copy(y))

RECURSIVE or_positive_loop(_, _, _, _)
(* the end of one turn of the loop of or_positive *)
or_positive_next(result, power_of_2, a_temp, b_temp, or_bit) ==
    or_positive_loop(IF __ge__(or_bit, one)
                     THEN call("__add__", <<result, power_of_2>>)
                     ELSE result,
                     call("mul2", <<power_of_2>>),
                     call("__rshift__", <<a_temp, 1>>),
                     call("__rshift__", <<b_temp, 1>>))

or_positive_loop(result, power_of_2, a_temp, b_temp) ==
    IF Then(<<result, power_of_2, a_temp, b_temp>>,
            __gt__(a_temp, zero) \/ __gt__(b_temp, zero))
    THEN or_positive_next(result, power_of_2, a_temp, b_temp,
                          call2("__add__",
                                call("__mod__", <<a_temp, two>>),
                                call("__mod__", <<b_temp, two>>)))
    ELSE result

or_positive(x, y) ==
    IF __lt__(x, zero) \/ __lt__(y, zero)
    THEN ValueError
    ELSE or_positive_loop(copy(zero), copy(one), copy(x), copy(y))

(* if x < zero: transform = transform + one *)
count_neg(transform, x) ==
    IF __lt__(x, zero) THEN call("__add__", <<transform, one>>) ELSE transform

(* if x < zero: cpy = x + twos_n *)
lift(x, twos_n) ==
    IF __lt__(x, zero) THEN call("__add__", <<x, twos_n>>) ELSE x

xor_back(transform, xor_val, twos_n) ==
    IF Then(xor_val, Raised(xor_val)) THEN xor_val
    ELSE IF __eq__(transform, one) THEN call("__sub__", <<xor_val, twos_n>>)
    ELSE xor_val

xor_lifted(self, other, twos_n) ==
    Then(twos_n,
         xor_back(count_neg(count_neg(copy(zero), self), other),
                  call("xor_positive",
                       <<lift(self, twos_n), lift(other, twos_n)>>), twos_n))

(* twos_n_a if twos_n_a >= twos_n_b else twos_n_b *)
larger(twos_n_a, twos_n_b) ==
    IF Then(<<twos_n_a, twos_n_b>>, __ge__(twos_n_a, twos_n_b))
    THEN twos_n_a ELSE twos_n_b

__xor__(self, other) ==
    IF Then(<<self, other>>, __ge__(self, zero) /\ __ge__(other, zero))
    THEN call("xor_positive", <<self, other>>)
    ELSE xor_lifted(self, other,
                    larger(call3("double_until_gt",
                                 call("abs", <<self>>),
                                 one,
                                 TRUE),
                           call3("double_until_gt",
                                 call("abs", <<other>>),
                                 one,
                                 TRUE)))

(* p1, p2 = intersection raises ValueError unless there are two points *)
sqrt_root(q, inter) ==
    IF Then(inter, Len(inter) # 2) THEN ValueError
    ELSE call("__sub__", <<CasNum(larger_x(inter)), q>>)

sqrt_rise(q, inter) ==
    IF Then(inter, Len(inter) # 2) THEN ValueError
    ELSE sqrt_root(q,
                   call2("intersect_with_line",
                         call("Circle", <<q.p, larger_y(inter)>>),
                         x_axis))

sqrt_from(p, q) ==
    Then(<<p, q>>,
         sqrt_rise(q,
                   call2("intersect_with_line",
                         call("Circle", <<origin, p.p>>),
                         call("get_perpendicular_to_line_through_point",
                              <<q.p,
                                x_axis>>))))

sqrt_half(p) == Then(p, sqrt_from(p, call("__sub__", <<p, one>>)))

(* a radicand that is not a square leaves the root as the surd sqrt(self) *)
sqrt(self) ==
    IF __lt__(self, zero) THEN ValueError
    ELSE IF ~QIsSquare(self.p.x) THEN Surd(self.p)
    ELSE sqrt_half(call2("__truediv__", call("__add__", <<self, one>>), two))

(* the truth values an operation returns *)
Bool(v) == [tag |-> "bool", v |-> v]

RECURSIVE is_prime_loop(_, _, _)
is_prime_loop(self, cur, lim) ==
    IF Then(<<cur, lim>>, ~__lt__(cur, lim)) THEN Bool(TRUE)
    ELSE IF __eq__(call("__mod__", <<self, cur>>), zero) THEN Bool(FALSE)
    ELSE is_prime_loop(self, call("__add__", <<cur, two>>), lim)

(* prime_lim without the one added to the root *)
prime_lim_short(root) ==
    IF Raised(root) THEN root
    ELSE IF root.tag = "surd"
    THEN CasNum(Point(QInt(ISqrt(root.p.x[1] \div root.p.x[2])), Q0))
    ELSE floor(root)

(* lim = (self.sqrt() + one).floor(); of a surd root r the sum r + one    *)
(* and its floor are the point (floor(r) + 1, 0) they construct           *)
prime_lim(root) ==
    IF Raised(root) THEN root
    ELSE IF root.tag = "surd"
    THEN CasNum(Point(QInt(ISqrt(root.p.x[1] \div root.p.x[2]) + 1), Q0))
    ELSE floor(call("__add__", <<root, one>>))

is_prime_from(self, lim) ==
    IF Then(lim, Raised(lim)) THEN lim
    ELSE is_prime_loop(self, call("__add__", <<two, one>>), lim)

is_prime(self) ==
    IF __eq__(self, one) THEN Bool(FALSE)
    ELSE IF __eq__(self, two) THEN Bool(TRUE)
    ELSE IF __eq__(call("__mod__", <<self, two>>), zero) THEN Bool(FALSE)
    ELSE is_prime_from(self, prime_lim(call("sqrt", <<self>>)))

(* get_prime works modulo m = 2^32.  Its state is held as the two 16-bit  *)
(* halves <<s1, s0>> of s1 * 2^16 + s0, and the integer arithmetic of    *)
(* get_prime on it is carried out on the halves.                         *)
Half == 65536

(* a = 1664525 = 25 * 2^16 + 26125, c = 1013904223 = 15470 * 2^16 + 62303 *)
lcg_a == <<25, 26125>>
lcg_c == <<15470, 62303>>

lcg_carry(s, low) ==
    <<(lcg_a[1] * s[2] + lcg_a[2] * s[1] + lcg_c[1] + (low \div Half)) % Half,
      low % Half>>

(* state = (a * state + c) % m *)
lcg_next(s) == lcg_carry(s, lcg_a[2] * s[2] + lcg_c[2])

word_rem(s, r) == ((s[1] % r) * (Half % r) + (s[2] % r)) % r

(* state % rng, with the sign of rng *)
state_mod(s, rng) ==
    IF rng > 0 THEN word_rem(s, rng)
    ELSE IF word_rem(s, -rng) = 0 THEN 0
    ELSE word_rem(s, -rng) + rng

(* state >= lim for lim = (m / rng).floor() * rng, which is m less its    *)
(* remainder by a positive rng and lies above m for a negative rng       *)
at_least_lim(s, rng) ==
    /\ rng > 0
    /\ s[1] = Half - 1
    /\ Half - 1 - s[2] < word_rem(<<Half, 0>>, rng)

(* the loop of get_prime has not ended within MaxTurns turns *)
Running == [tag |-> "running"]

RECURSIVE get_prime_at(_, _, _, _, _)
(* while not cur.is_prime(): ...; return cur *)
get_prime_loop(lo, rng, state, cur, turns, prime) ==
    IF Raised(prime) THEN prime
    ELSE IF prime.v THEN cn(cur)
    ELSE IF turns = 0 THEN Running
    ELSE get_prime_at(lo, rng, lcg_next(state), cur, turns - 1)

(* get_prime_cur drawing the candidate modulo rng + 1 *)
get_prime_cur_wide(lo, rng, state, cur) ==
    IF at_least_lim(state, rng) THEN cur ELSE lo + state_mod(state, rng + 1)

(* if state >= lim: continue; cur = lo + state % rng *)
get_prime_cur(lo, rng, state, cur) ==
    IF at_least_lim(state, rng) THEN cur ELSE lo + state_mod(state, rng)

get_prime_test(lo, rng, state, cur, turns) ==
    get_prime_loop(lo, rng, state, cur, turns, call("is_prime", <<cn(cur)>>))

get_prime_at(lo, rng, state, cur, turns) ==
    get_prime_test(lo, rng, state, get_prime_cur(lo, rng, state, cur), turns)

(* hi > m does not arise for the host integers drawn; m / rng raises for   *)
(* rng = 0                                                                *)
get_prime_from(lo, rng, state) ==
    IF rng = 0 THEN ValueError
    ELSE get_prime_test(lo, rng, state, lo + state_mod(state, rng), MaxTurns)

get_prime(lo, hi, seed) == get_prime_from(lo, hi - lo + 1, <<0, seed>>)

(* -A, -(-A), A + (-A) and A - A, as the negation test computes them *)
negation(A) ==
    [tag |-> "negation",
     neg |-> call("__neg__", <<A>>),
     back |-> call1("__neg__", call("__neg__", <<A>>)),
     sum |-> call2("__add__", A, call("__neg__", <<A>>)),
     diff |-> call("__sub__", <<A, A>>)]

(* Objects: an object is a value under an identity of its own.  Without  *)
(* __hash__ and __eq__ an object hashes and compares by its identity.    *)
object(id, v) == [id |-> id, v |-> v]

(* the lowest terms sympify keeps a rational coordinate in *)
sympify(x) == Q(x[1], x[2])

(* Point.__hash__: hash((self.x, self.y)) *)
Point_hash(p) == <<sympify(p.x), sympify(p.y)>>

(* the hash an object has by default *)
hash_by_identity(o) == o.id

(* CasNum.__hash__: hash(self.p) *)
__hash__(o) == Point_hash(o.v.p)

(* the lookup of lru_cache: a key of equal hash that compares equal *)
cache_hit(keys, o) ==
    \E k \in keys : __hash__(k) = __hash__(o) /\ __eq__(k.v, o.v)

(* a = cn(n); b = CasNum(Point(a.p.x, a.p.y)), and c the same integer     *)
(* reached by arithmetic, after a call has been cached under the key a   *)
hash_eq(A, B, Cc) ==
    [tag |-> "hash_eq",
     eq |-> __eq__(A.v, B.v) /\ __eq__(A.v, Cc.v),
     distinct |-> A.id # B.id /\ A.id # Cc.id,
     hashes |-> <<__hash__(A), __hash__(B), __hash__(Cc)>>,
     hit |-> cache_hit({A}, B) /\ cache_hit({A}, Cc)]

(* Line.__eq__: the slopes and the intercepts Line.__init__ stored *)
Line___eq__(self, l) ==
    /\ get_slope(self) = get_slope(l)
    /\ get_intercept(self) = get_intercept(l)

(* Line.__hash__: hash((self.A, self.B, self.C)) *)
Line___hash__(self) ==
    <<sympify(self.A), sympify(self.B), sympify(self.C)>>

line_hash_eq(l1, l2) ==
    [tag |-> "line_hash_eq",
     l1 |-> l1,
     l2 |-> l2,
     eq |-> Line___eq__(l1, l2),
     hashes |-> <<Line___hash__(l1), Line___hash__(l2)>>]

rebuilt(v) == CasNum(Point(sympify(v.p.x), sympify(v.p.y)))

(* q = A // B; r = A % B; q * B + r, as the division test computes them *)
recompose(B, q, r) ==
    [tag |-> "divmod", q |-> q, r |-> r,
     back |-> call2("__add__", call("__mul__", <<q, B>>), r)]

div_mod(A, B) ==
    Then(<<A, B>>,
         recompose(B, call("__floordiv__", <<A, B>>),
                   call("__mod__", <<A, B>>)))

call(f, args) ==
    CASE f = "Rational.__mul__" -> Rational_mul(args[1], args[2])
      [] f = "Rational.__add__" -> Rational_add(args[1], args[2])
      [] f = "Rational.__lt__" -> Rational_lt(args[1], args[2])
      [] f = "dist" -> dist(args[1], args[2])
      [] f = "Line" -> Line(args[1], args[2])
      [] f = "dist_from_point" -> dist_from_point(args[1], args[2])
      [] f = "Line_get_intersection" ->
             Line_get_intersection(args[1], args[2])
      [] f = "Circle" -> Circle(args[1], args[2])
      [] f = "get_circle" -> get_circle(args[1], args[2])
      [] f = "Circle_get_intersection" ->
             Circle_get_intersection(args[1], args[2])
      [] f = "intersect_with_line" -> intersect_with_line(args[1], args[2])
      [] f = "get_perpendicular_bisector" ->
             get_perpendicular_bisector(args[1])
      [] f = "get_midpoint" -> get_midpoint(args[1])
      [] f = "get_perpendicular_to_line_through_point" ->
             get_perpendicular_to_line_through_point(args[1], args[2])
      [] f = "get_parallel_to_line_through_point" ->
             get_parallel_to_line_through_point(args[1], args[2])
      [] f = "mirror_point" -> mirror_point(args[1], args[2])
      [] f = "mirror_point_on_x_axis" ->
             mirror_point_on_x_axis(args[1], args[2])
      [] f = "double_point_on_x_axis" ->
             double_point_on_x_axis(args[1], args[2])
      [] f = "half_point_on_x_axis" -> half_point_on_x_axis(args[1], args[2])
      [] f = "get_y_axis" -> get_y_axis(args[1], args[2])
      [] f = "mul2" -> mul2(args[1])
      [] f = "__neg__" -> __neg__(args[1])
      [] f = "__add__" -> __add__(args[1], args[2])
      [] f = "__sub__" -> __sub__(args[1], args[2])
      [] f = "abs" -> abs(args[1])
      [] f = "double_until_gt" -> double_until_gt(args[1], args[2], args[3])
      [] f = "__mod__" -> __mod__(args[1], args[2])
      [] f = "__truediv__" -> __truediv__(args[1], args[2])
      [] f = "__floordiv__" -> __floordiv__(args[1], args[2])
      [] f = "__mul__" -> __mul__(args[1], args[2])
      [] f = "__rshift__" -> __rshift__(args[1], args[2])
      [] f = "__lshift__" -> __lshift__(args[1], args[2])
      [] f = "__pow__" -> __pow__(args[1], args[2])
      [] f = "pow_mod" -> pow_mod(args[1], args[2], args[3])
      [] f = "get_n" -> get_n(args[1])
      [] f = "generate_n" -> generate_n(args[1], args[2], args[3])
      [] f = "from_num" -> from_num(args[1])
      [] f = "gcd" -> gcd(args[1], args[2])
      [] f = "inv_mod" -> inv_mod(args[1], args[2])
      [] f = "xor_positive" -> xor_positive(args[1], args[2])
      [] f = "__xor__" -> __xor__(args[1], args[2])
      [] f = "and_positive" -> and_positive(args[1], args[2])
      [] f = "or_positive" -> or_positive(args[1], args[2])
      [] f = "sqrt" -> sqrt(args[1])
      [] f = "is_prime" -> is_prime(args[1])
      [] f = "get_prime" -> get_prime(args[1], args[2], args[3])

---------------------------------------------------------------------------
(* One call of the public surface on the CasNums of host integers *)

Idle == [tag |-> "idle"]

(* The viewer's command queue (casnum/cas/viewer.py).  The kernel is the  *)
(* one producer; the viewer process is the consumer.  A call of _enqueue  *)
(* is not atomic: the consumer may take commands between its queue        *)
(* operations, so each queue operation of the call is one step.  frame is *)
(* the call in progress (the statement it is at, its command, and the     *)
(* queue as the refused put_nowait found it); last_call is what the last  *)
(* finished call did: whether put_nowait had raised queue.Full, the queue *)
(* it had found then and the queue it left.  The command of a call is a   *)
(* sequence of one, empty outside a call.                                 *)
queue_maxsize == MaxQueue

Commands == 1..MaxCmd

Full(q) == Len(q) >= queue_maxsize

Returned == [at |-> "return", cmd |-> <<>>, seen |-> <<>>]

NoCall == [cmd |-> <<>>, full |-> FALSE, seen |-> <<>>, left |-> <<>>]

Outcome(c, full, seen, left) ==
    [cmd |-> <<c>>, full |-> full, seen |-> seen, left |-> left]

(* A command of the viewer protocol: its tag and its generation; the    *)
(* coordinates play no part in what the queue and the sink do with it.  *)
Cmd(kind, gen) == [kind |-> kind, gen |-> gen]

(* The sink: at is the statement of process_commands it is at, cmd the   *)
(* command it has dequeued, was the generation counter when it dequeued  *)
(* it, and did what it did with the command before ("continue" for one   *)
(* it passed over, else the command's tag).                              *)
SinkIdle == [at |-> "get_nowait", cmd |-> Cmd("none", 0), was |-> 0,
             did |-> "none"]

Init ==
    /\ a \in -MaxA..MaxA
    /\ b \in -MaxA..MaxA
    /\ n \in 0..MaxN
    /\ op = "none"
    /\ res = Idle
    /\ cache = {}
    /\ _cmd_q = <<>>
    /\ drop_policy = "drop_oldest"
    /\ enable_graphics = TRUE
    /\ frame = Returned
    /\ last_call = NoCall
    /\ _gen = 0
    /\ scene = {}
    /\ sink = SinkIdle

Add ==
    /\ op = "none"
    /\ op' = "add"
    /\ res' = call("__add__", <<cn(a), cn(b)>>)
    /\ UNCHANGED <<a, b, n, cache, viewer_vars>>

Sub ==
    /\ op = "none"
    /\ op' = "sub"
    /\ res' = call("__sub__", <<cn(a), cn(b)>>)
    /\ UNCHANGED <<a, b, n, cache, viewer_vars>>

Mul ==
    /\ op = "none"
    /\ op' = "mul"
    /\ res' = call("__mul__", <<cn(a), cn(b)>>)
    /\ UNCHANGED <<a, b, n, cache, viewer_vars>>

Mod ==
    /\ op = "none"
    /\ op' = "mod"
    /\ res' = call("__mod__", <<cn(a), cn(b)>>)
    /\ UNCHANGED <<a, b, n, cache, viewer_vars>>

FloorDiv ==
    /\ op = "none"
    /\ op' = "floordiv"
    /\ res' = call("__floordiv__", <<cn(a), cn(b)>>)
    /\ UNCHANGED <<a, b, n, cache, viewer_vars>>

TrueDiv ==
    /\ op = "none"
    /\ op' = "truediv"
    /\ res' = call("__truediv__", <<cn(a), cn(b)>>)
    /\ UNCHANGED <<a, b, n, cache, viewer_vars>>

Xor ==
    /\ op = "none"
    /\ op' = "xor"
    /\ res' = call("__xor__", <<cn(a), cn(b)>>)
    /\ UNCHANGED <<a, b, n, cache, viewer_vars>>

PowMod ==
    /\ op = "none"
    /\ op' = "pow_mod"
    /\ res' = call("pow_mod", <<cn(a), cn(b), cn(n)>>)
    /\ UNCHANGED <<a, b, n, cache, viewer_vars>>

(* the division test draws a non-zero divisor *)
DivMod ==
    /\ op = "none"
    /\ b # 0
    /\ op' = "divmod"
    /\ res' = div_mod(cn(a), cn(b))
    /\ UNCHANGED <<a, b, n, cache, viewer_vars>>

InvMod ==
    /\ op = "none"
    /\ op' = "inv_mod"
    /\ res' = call("inv_mod", <<cn(a), cn(n)>>)
    /\ UNCHANGED <<a, b, n, cache, viewer_vars>>

Sqrt ==
    /\ op = "none"
    /\ op' = "sqrt"
    /\ res' = call("sqrt", <<cn(a)>>)
    /\ UNCHANGED <<a, b, n, cache, viewer_vars>>

(* the doubling loop ends only from a positive start or from one the   *)
(* loop condition already rejects                                        *)
DoubleUntilGt ==
    /\ op = "none"
    /\ b >= 1 \/ a <= b
    /\ op' = "double_until_gt"
    /\ res' = call("double_until_gt", <<cn(a), cn(b), TRUE>>)
    /\ UNCHANGED <<a, b, n, cache, viewer_vars>>

(* the doubling loop ends only from a positive start or from one the   *)
(* loop condition already rejects                                        *)
DoubleUntilGtNonStrict ==
    /\ op = "none"
    /\ b >= 1 \/ a < b
    /\ op' = "double_until_gt_nonstrict"
    /\ res' = call("double_until_gt", <<cn(a), cn(b), FALSE>>)
    /\ UNCHANGED <<a, b, n, cache, viewer_vars>>

(* the shift count is a host integer *)
RShift ==
    /\ op = "none"
    /\ op' = "rshift"
    /\ res' = call("__rshift__", <<cn(a), n>>)
    /\ UNCHANGED <<a, b, n, cache, viewer_vars>>

LShift ==
    /\ op = "none"
    /\ op' = "lshift"
    /\ res' = call("__lshift__", <<cn(a), n>>)
    /\ UNCHANGED <<a, b, n, cache, viewer_vars>>

XorPositive ==
    /\ op = "none"
    /\ op' = "xor_positive"
    /\ res' = call("xor_positive", <<cn(a), cn(b)>>)
    /\ UNCHANGED <<a, b, n, cache, viewer_vars>>

AndPositive ==
    /\ op = "none"
    /\ op' = "and_positive"
    /\ res' = call("and_positive", <<cn(a), cn(b)>>)
    /\ UNCHANGED <<a, b, n, cache, viewer_vars>>

OrPositive ==
    /\ op = "none"
    /\ op' = "or_positive"
    /\ res' = call("or_positive", <<cn(a), cn(b)>>)
    /\ UNCHANGED <<a, b, n, cache, viewer_vars>>

Gcd ==
    /\ op = "none"
    /\ op' = "gcd"
    /\ res' = call("gcd", <<cn(a), cn(b)>>)
    /\ UNCHANGED <<a, b, n, cache, viewer_vars>>

(* the base and the exponent are kept small: the power is built by      *)
(* repeated __mul__                                                      *)
Pow ==
    /\ op = "none"
    /\ IAbs(a) <= MaxBase
    /\ b <= MaxE
    /\ op' = "pow"
    /\ res' = call("__pow__", <<cn(a), cn(b)>>)
    /\ UNCHANGED <<a, b, n, cache, viewer_vars>>

(* is_prime has one operand; the candidate is drawn from a range that    *)
(* holds odd composites and replaces a                                   *)
IsPrime ==
    /\ op = "none"
    /\ a = 0 /\ b = 0 /\ n = 0
    /\ op' = "is_prime"
    /\ \E p \in -MaxA..MaxP :
         /\ a' = p
         /\ res' = call("is_prime", <<cn(p)>>)
    /\ UNCHANGED <<b, n, cache, viewer_vars>>

(* get_prime(cn(a), cn(b), cn(n)): lo = a, hi = b and the seed state n *)
GetPrime ==
    /\ op = "none"
    /\ op' = "get_prime"
    /\ res' = call("get_prime", <<a, b, n>>)
    /\ UNCHANGED <<a, b, n, cache, viewer_vars>>

Negation ==
    /\ op = "none"
    /\ op' = "negation"
    /\ res' = negation(cn(a))
    /\ UNCHANGED <<a, b, n, cache, viewer_vars>>

GetN ==
    /\ op = "none"
    /\ op' = "get_n"
    /\ res' = call("get_n", <<a>>)
    /\ UNCHANGED <<a, b, n, cache, viewer_vars>>

HashEq ==
    /\ op = "none"
    /\ op' = "hash_eq"
    /\ res' = hash_eq(object(1, cn(a)),
                      object(2, rebuilt(cn(a))),
                      object(3, call2("__sub__",
                                      call("__add__", <<cn(a), cn(b)>>),
                                      cn(b))))
    /\ UNCHANGED <<a, b, n, cache, viewer_vars>>

(* two circles about centres on one horizontal line *)
CircleIntersection ==
    /\ op = "none"
    /\ b # 0
    /\ n # 0
    /\ op' = "circle_get_intersection"
    /\ res' = call2("Circle_get_intersection",
                    call("get_circle", <<origin, QInt(IAbs(b))>>),
                    call("get_circle", <<Point(QInt(a), Q0), QInt(n)>>))
    /\ UNCHANGED <<a, b, n, cache, viewer_vars>>

(* the lines of slope a through (0, 0) and of slope b through (0, n) *)
LineIntersection ==
    /\ op = "none"
    /\ op' = "line_get_intersection"
    /\ res' = call2("Line_get_intersection",
                    call("Line", <<origin, Point(Q1, QInt(a))>>),
                    call("Line", <<Point(Q0, QInt(n)),
                                   Point(Q1, QInt(n + b))>>))
    /\ UNCHANGED <<a, b, n, cache, viewer_vars>>

(* the line of slope a through (0, 0) and (1, a), and the line of slope a *)
(* through (0, n) and (b, a * b + n)                                      *)
LineHashEq ==
    /\ op = "none"
    /\ b # 0
    /\ op' = "line_hash_eq"
    /\ res' = line_hash_eq(call("Line", <<origin, Point(Q1, QInt(a))>>),
                           call("Line", <<Point(Q0, QInt(n)),
                                          Point(QInt(b), QInt(a * b + n))>>))
    /\ UNCHANGED <<a, b, n, cache, viewer_vars>>

(* CasNum.from_num(a) beside CasNum.get_n(a) *)
FromNum ==
    /\ op = "none"
    /\ op' = "from_num"
    /\ res' = [tag |-> "from_num",
               from_num |-> call("from_num", <<a>>),
               get_n |-> call("get_n", <<a>>)]
    /\ UNCHANGED <<a, b, n, cache, viewer_vars>>

Next ==
    \/ Negation
    \/ Add
    \/ Sub
    \/ Mul
    \/ Mod
    \/ FloorDiv
    \/ TrueDiv
    \/ DivMod
    \/ Xor
    \/ PowMod
    \/ InvMod
    \/ Sqrt
    \/ DoubleUntilGt
    \/ DoubleUntilGtNonStrict
    \/ RShift
    \/ LShift
    \/ XorPositive
    \/ AndPositive
    \/ OrPositive
    \/ Gcd
    \/ Pow
    \/ IsPrime
    \/ GetPrime
    \/ GetN
    \/ HashEq
    \/ CircleIntersection
    \/ LineIntersection
    \/ LineHashEq
    \/ FromNum

Spec == Init /\ [][Next]_vars

---------------------------------------------------------------------------
(* The loop of CasNum.__mod__, one turn at a time; res holds the locals  *)
(* remainder, abs_b and to_rem of the call cn(a) % cn(b).                *)

locals(remainder, abs_b, to_rem) ==
    [tag |-> "locals",
     remainder |-> remainder, abs_b |-> abs_b, to_rem |-> to_rem]

(* the body of the loop always adding to_rem *)
mod_turn_adding(frm, to_rem) ==
    locals(call("__add__", <<frm.remainder, to_rem>>), frm.abs_b, to_rem)

(* if remainder > zero: remainder = remainder - to_rem; else: ... + to_rem *)
mod_turn(frm, to_rem) ==
    IF __gt__(frm.remainder, zero)
    THEN locals(call("__sub__", <<frm.remainder, to_rem>>), frm.abs_b, to_rem)
    ELSE locals(call("__add__", <<frm.remainder, to_rem>>), frm.abs_b, to_rem)

(* while CasNum.abs(remainder) >= abs_b *)
mod_while(frm) == __ge__(call("abs", <<frm.remainder>>), frm.abs_b)

ModEnter ==
    /\ op = "none"
    /\ IF isEqual(cn(b), zero)
       THEN /\ op' = "mod_raise"
            /\ res' = ValueError
       ELSE /\ op' = "mod_loop"
            /\ res' = locals(copy(cn(a)), call("abs", <<cn(b)>>), None)
    /\ UNCHANGED <<a, b, n, cache, viewer_vars>>

ModTurn ==
    /\ op = "mod_loop"
    /\ mod_while(res)
    /\ res' = mod_turn(res,
                       call3("double_until_gt",
                             call("abs", <<res.remainder>>),
                             res.abs_b,
                             TRUE))
    /\ UNCHANGED <<op, a, b, n, cache, viewer_vars>>

ModReturn ==
    /\ op = "mod_loop"
    /\ ~mod_while(res)
    /\ op' = "mod_return"
    /\ res' = mod_sign(cn(b), res.abs_b, res.remainder)
    /\ UNCHANGED <<a, b, n, cache, viewer_vars>>

ModNext ==
    \/ ModEnter
    \/ ModTurn
    \/ ModReturn

ModSpec == Init /\ [][ModNext]_vars

(* The interpreter runs a call on to its end: weak fairness of the steps *)
(* of the loop, WF_vars(ModTurn \/ ModReturn), with its ENABLED written   *)
(* out: inside the loop one of the two steps can always be taken.        *)
ModFairSpec ==
    /\ ModSpec
    /\ \/ []<>(op # "mod_loop")
       \/ []<><<ModTurn \/ ModReturn>>_vars

---------------------------------------------------------------------------
(* The caches of the memoized operations (functools.lru_cache with      *)
(* maxsize=None): cache is the set of entries of the cache of the       *)
(* operation op, each the key of a call and the result stored under it. *)

(* the memoized operations that raise on some operands *)
Memoized ==
    {"__mod__", "__floordiv__", "__truediv__", "__pow__",
     "xor_positive", "and_positive", "or_positive"}

(* key = make_key(args, kwds, typed), within the cache of f *)
make_key(f, args) == [f |-> f, args |-> args]

(* cache_get(key, sentinel) *)
cache_get(c, key) == {e \in c : e.key = key}

(* a wrapper storing whatever the call ended with *)
cache_put_any(c, key, result) == c \cup {[key |-> key, result |-> result]}

(* result = user_function(args); cache[key] = result: a call that       *)
(* raises leaves the wrapper before the store                            *)
cache_put(c, key, result) ==
    IF Raised(result) THEN c ELSE c \cup {[key |-> key, result |-> result]}

Returns(key, result, hit) ==
    [tag |-> "wrapper", key |-> key, result |-> result, hit |-> hit]

CacheInit ==
    /\ a \in -MaxKey..MaxKey
    /\ b \in -MaxKey..MaxKey
    /\ n = 0
    /\ op \in Memoized
    /\ res = Idle
    /\ cache = {}
    /\ _cmd_q = <<>>
    /\ drop_policy = "drop_oldest"
    /\ enable_graphics = TRUE
    /\ frame = Returned
    /\ last_call = NoCall
    /\ _gen = 0
    /\ scene = {}
    /\ sink = SinkIdle

(* if result is not sentinel: return result *)
Hit(f, args) ==
    /\ cache_get(cache, make_key(f, args)) # {}
    /\ \E e \in cache_get(cache, make_key(f, args)) :
           res' = Returns(e.key, e.result, TRUE)
    /\ UNCHANGED cache

(* result = user_function(args); cache[key] = result; return result *)
Miss(f, args) ==
    /\ cache_get(cache, make_key(f, args)) = {}
    /\ res' = Returns(make_key(f, args), call(f, args), FALSE)
    /\ cache' = cache_put(cache, make_key(f, args), call(f, args))

CacheHit ==
    /\ \E args \in {<<cn(a), cn(b)>>, <<cn(b), cn(a)>>} : Hit(op, args)
    /\ UNCHANGED <<a, b, n, op, viewer_vars>>

CacheMiss ==
    /\ \E args \in {<<cn(a), cn(b)>>, <<cn(b), cn(a)>>} : Miss(op, args)
    /\ UNCHANGED <<a, b, n, op, viewer_vars>>

CacheNext ==
    \/ CacheHit
    \/ CacheMiss

CacheSpec == CacheInit /\ [][CacheNext]_vars

---------------------------------------------------------------------------
(* The viewer: producer (Viewer._enqueue) and consumer (viewer process) *)

ViewerInit ==
    /\ a = 0 /\ b = 0 /\ n = 0
    /\ op = "none"
    /\ res = Idle
    /\ cache = {}
    /\ _cmd_q = <<>>
    /\ drop_policy \in {"drop_oldest", "drop_new"}
    /\ enable_graphics \in BOOLEAN
    /\ frame = Returned
    /\ last_call = NoCall
    /\ _gen = 0
    /\ scene = {}
    /\ sink = SinkIdle

(* _enqueue(cmd) up to the outcome of its first put_nowait *)
_enqueue(c) ==
    IF ~enable_graphics
    THEN /\ last_call' = Outcome(c, FALSE, _cmd_q, _cmd_q)
         /\ frame' = Returned
         /\ UNCHANGED _cmd_q
    ELSE IF ~Full(_cmd_q)
    THEN /\ _cmd_q' = Append(_cmd_q, c)
         /\ last_call' = Outcome(c, FALSE, _cmd_q, _cmd_q')
         /\ frame' = Returned
    ELSE IF drop_policy = "drop_oldest"
    THEN /\ frame' = [at |-> "get_nowait", cmd |-> <<c>>, seen |-> _cmd_q]
         /\ UNCHANGED <<_cmd_q, last_call>>
    ELSE /\ last_call' = Outcome(c, TRUE, _cmd_q, _cmd_q)
         /\ frame' = Returned
         /\ UNCHANGED _cmd_q

Enqueue ==
    /\ frame = Returned
    /\ \E c \in Commands : _enqueue(c)
    /\ UNCHANGED <<drop_policy, enable_graphics, kernel_vars, sink_vars>>

(* self._cmd_q.get_nowait() of drop_oldest; queue.Empty returns *)
DropOldest ==
    /\ frame.at = "get_nowait"
    /\ IF _cmd_q = <<>>
       THEN /\ last_call' = Outcome(frame.cmd[1], TRUE, frame.seen, _cmd_q)
            /\ frame' = Returned
            /\ UNCHANGED _cmd_q
       ELSE /\ _cmd_q' = Tail(_cmd_q)
            /\ frame' = [frame EXCEPT !.at = "put_nowait"]
            /\ UNCHANGED last_call
    /\ UNCHANGED <<drop_policy, enable_graphics, kernel_vars, sink_vars>>

(* the second self._cmd_q.put_nowait(cmd); any exception is passed over *)
PutAgain ==
    /\ frame.at = "put_nowait"
    /\ _cmd_q' = IF Full(_cmd_q) THEN _cmd_q ELSE Append(_cmd_q, frame.cmd[1])
    /\ last_call' = Outcome(frame.cmd[1], TRUE, frame.seen, _cmd_q')
    /\ frame' = Returned
    /\ UNCHANGED <<drop_policy, enable_graphics, kernel_vars, sink_vars>>

(* cmd_q.get_nowait() in the viewer process *)
Consume ==
    /\ _cmd_q # <<>>
    /\ _cmd_q' = Tail(_cmd_q)
    /\ UNCHANGED <<drop_policy, enable_graphics, frame, last_call>>
    /\ UNCHANGED <<kernel_vars, sink_vars>>

ViewerNext ==
    \/ Enqueue
    \/ DropOldest
    \/ PutAgain
    \/ Consume

ViewerSpec == ViewerInit /\ [][ViewerNext]_vars

---------------------------------------------------------------------------
(* The viewer with its generation counter: the producer's add_point,     *)
(* add_line, add_circle, clear and close, and the viewer process, which  *)
(* takes commands off the queue (process_commands) and answers the C key *)

(* add_line and add_circle differ from add_point in the tag and the     *)
(* coordinates of their command only; "pt" stands for the three         *)
Draw == {"pt"}

SinkInit ==
    /\ a = 0 /\ b = 0 /\ n = 0
    /\ op = "none"
    /\ res = Idle
    /\ cache = {}
    /\ _cmd_q = <<>>
    /\ drop_policy \in {"drop_oldest", "drop_new"}
    /\ enable_graphics = TRUE
    /\ frame = Returned
    /\ last_call = NoCall
    /\ _gen = 0
    /\ scene = {}
    /\ sink = SinkIdle

(* gen = self._gen.value in add_point, add_line and add_circle *)
AddDraw ==
    /\ frame = Returned
    /\ enable_graphics
    /\ \E kind \in Draw :
           frame' = [at |-> "_enqueue", cmd |-> <<Cmd(kind, _gen)>>,
                     seen |-> <<>>]
    /\ UNCHANGED <<_cmd_q, drop_policy, enable_graphics, last_call>>
    /\ UNCHANGED <<kernel_vars, sink_vars>>

(* self._enqueue(("pt", gen, fx, fy)) and the like *)
EnqueueDraw ==
    /\ frame.at = "_enqueue"
    /\ _enqueue(frame.cmd[1])
    /\ UNCHANGED <<drop_policy, enable_graphics, kernel_vars, sink_vars>>

(* Viewer.clear: with the lock held, self._gen.value += 1 *)
Clear ==
    /\ frame = Returned
    /\ enable_graphics
    /\ _gen < MaxGen
    /\ _gen' = _gen + 1
    /\ frame' = [at |-> "_enqueue_control", cmd |-> <<Cmd("clear", _gen')>>,
                 seen |-> <<>>]
    /\ UNCHANGED <<_cmd_q, drop_policy, enable_graphics, last_call>>
    /\ UNCHANGED <<kernel_vars, scene, sink>>

(* Viewer.close: self._enqueue_control(("close", self._gen.value)) *)
Close ==
    /\ frame = Returned
    /\ enable_graphics
    /\ frame' = [at |-> "_enqueue_control", cmd |-> <<Cmd("close", _gen)>>,
                 seen |-> <<>>]
    /\ UNCHANGED <<_cmd_q, drop_policy, enable_graphics, last_call>>
    /\ UNCHANGED <<kernel_vars, sink_vars>>

(* _enqueue_control(cmd) up to the outcome of its first put_nowait *)
ControlPut ==
    /\ frame.at = "_enqueue_control"
    /\ IF ~Full(_cmd_q)
       THEN /\ _cmd_q' = Append(_cmd_q, frame.cmd[1])
            /\ frame' = Returned
       ELSE /\ frame' = [at |-> "control_get_nowait", cmd |-> frame.cmd,
                         seen |-> _cmd_q]
            /\ UNCHANGED _cmd_q
    /\ UNCHANGED <<drop_policy, enable_graphics, last_call>>
    /\ UNCHANGED <<kernel_vars, sink_vars>>

(* self._cmd_q.get_nowait() of _enqueue_control; queue.Empty is passed *)
ControlDropOldest ==
    /\ frame.at = "control_get_nowait"
    /\ _cmd_q' = IF _cmd_q = <<>> THEN _cmd_q ELSE Tail(_cmd_q)
    /\ frame' = [frame EXCEPT !.at = "control_put_nowait"]
    /\ UNCHANGED <<drop_policy, enable_graphics, last_call>>
    /\ UNCHANGED <<kernel_vars, sink_vars>>

(* the second put_nowait of _enqueue_control *)
ControlPutAgain ==
    /\ frame.at = "control_put_nowait"
    /\ _cmd_q' = IF Full(_cmd_q) THEN _cmd_q ELSE Append(_cmd_q, frame.cmd[1])
    /\ frame' = Returned
    /\ UNCHANGED <<drop_policy, enable_graphics, last_call>>
    /\ UNCHANGED <<kernel_vars, sink_vars>>

(* the test of the sink passing every command *)
stale_never(cmd, current_gen) == FALSE

(* if gen < current_gen: continue *)
stale(cmd, current_gen) == cmd.gen < current_gen

(* process_commands: cmd = cmd_q.get_nowait() *)
SinkGet ==
    /\ sink.at = "get_nowait"
    /\ sink.did # "close"
    /\ _cmd_q # <<>>
    /\ _cmd_q' = Tail(_cmd_q)
    /\ sink' = [at |-> "current_gen", cmd |-> Head(_cmd_q), was |-> _gen,
                did |-> "none"]
    /\ UNCHANGED <<drop_policy, enable_graphics, frame, last_call>>
    /\ UNCHANGED <<kernel_vars, _gen, scene>>

(* process_commands: current_gen = gen_value.value and what follows it *)
SinkAct ==
    /\ sink.at = "current_gen"
    /\ IF stale(sink.cmd, _gen)
       THEN /\ sink' = [SinkIdle EXCEPT !.did = "continue"]
            /\ UNCHANGED scene
       ELSE /\ sink' = [SinkIdle EXCEPT !.did = sink.cmd.kind]
            /\ scene' = IF sink.cmd.kind = "clear" THEN {}
                        ELSE IF sink.cmd.kind = "close" THEN scene
                        ELSE scene \cup {sink.cmd.gen}
    /\ UNCHANGED <<_cmd_q, drop_policy, enable_graphics, frame, last_call>>
    /\ UNCHANGED <<kernel_vars, _gen>>

(* on_key_press, key.C: gen_value.value += 1; scene.clear() *)
KeyC ==
    /\ sink.at = "get_nowait"
    /\ sink.did # "close"
    /\ _gen < MaxGen
    /\ _gen' = _gen + 1
    /\ scene' = {}
    /\ UNCHANGED <<_cmd_q, drop_policy, enable_graphics, frame, last_call>>
    /\ UNCHANGED <<kernel_vars, sink>>

SinkNext ==
    \/ AddDraw
    \/ EnqueueDraw
    \/ DropOldest
    \/ PutAgain
    \/ Clear
    \/ Close
    \/ ControlPut
    \/ ControlDropOldest
    \/ ControlPutAgain
    \/ SinkGet
    \/ SinkAct
    \/ KeyC

SinkSpec == SinkInit /\ [][SinkNext]_vars

(* The producer runs a call it has begun on to its return, and the sink, *)
(* unpaused, takes the next command whenever there is one and acts on    *)
(* the command it has taken.                                             *)
SinkFairSpec ==
    /\ SinkSpec
    /\ WF_vars(EnqueueDraw \/ DropOldest \/ PutAgain)
    /\ WF_vars(ControlPut \/ ControlDropOldest \/ ControlPutAgain)
    /\ WF_vars(SinkGet)
    /\ WF_vars(SinkAct)

---------------------------------------------------------------------------
(* Host-integer reference arithmetic *)

IntNum(i) == CasNum(Point(QInt(i), Q0))

RECURSIVE IPow(_, _)
IPow(x, k) == IF k <= 0 THEN 1 ELSE x * IPow(x, k - 1)

PyMod(x, y) == IF y > 0 THEN x % y ELSE -((-x) % (-y))
PyFloorDiv(x, y) ==
    IF y > 0 THEN (x - PyMod(x, y)) \div y ELSE (PyMod(x, y) - x) \div (-y)

RECURSIVE NatXor(_, _)
NatXor(x, y) ==
    IF x = 0 /\ y = 0 THEN 0
    ELSE (IF x % 2 = y % 2 THEN 0 ELSE 1) + 2 * NatXor(x \div 2, y \div 2)

RECURSIVE NatAnd(_, _)
NatAnd(x, y) ==
    IF x = 0 \/ y = 0 THEN 0
    ELSE (IF x % 2 = 1 /\ y % 2 = 1 THEN 1 ELSE 0)
         + 2 * NatAnd(x \div 2, y \div 2)

RECURSIVE NatOr(_, _)
NatOr(x, y) ==
    IF x = 0 /\ y = 0 THEN 0
    ELSE (IF x % 2 = 1 \/ y % 2 = 1 THEN 1 ELSE 0)
         + 2 * NatOr(x \div 2, y \div 2)

(* signed XOR on a two's-complement width that holds every input *)
PyXor(x, y) ==
    LET M == IPow(2, MaxA + 2)
        r == NatXor(x % M, y % M)
    IN  IF 2 * r >= M THEN r - M ELSE r

IsPrimeInt(i) == i >= 2 /\ \A k \in 2..(i - 1) : i % k # 0

OnXAxis(v, i) == v.tag = "num" /\ v.p.y = Q0 /\ v.p.x = QInt(i)

(* the integer a number on the x axis stands for *)
IntOf(v) == v.p.x[1]

(* the multiples 2^k * m of m *)
Doublings(m) == {m * IPow(2, k) : k \in 0..MaxTurns}

LargestBelow(m, r) ==
    CHOOSE t \in Doublings(m) :
        t <= r /\ \A u \in Doublings(m) : u <= r => u <= t

SmallestAbove(m, r) ==
    CHOOSE t \in Doublings(m) :
        t >= r /\ \A u \in Doublings(m) : u >= r => u >= t

(* remainder moved by t against its sign *)
Moved(r, t) == IF r > 0 THEN r - t ELSE r + t

---------------------------------------------------------------------------
(* Claims *)

(* C1: for a >= 0, b >= 0 and n > 1, pow_mod(cn(a), cn(b), cn(n)) is the   *)
(* point (a^b mod n, 0), a value in 0..n-1.                                *)
C1_PowModIsPow ==
    (op = "pow_mod" /\ a >= 0 /\ b >= 0 /\ n > 1)
        => res = IntNum(IPow(a, b) % n)

(* pow_mod(cn(2), cn(1), cn(2)) leaves the loop with the unreduced 2 *)
C1_Unreduced ==
    op = "pow_mod" /\ a = 2 /\ b = 1 /\ n = 2 /\ res = IntNum(2)

(* C2: for b # 0, q = cn(a) // cn(b) and r = cn(a) % cn(b) are floor(a/b)  *)
(* and a mod b in Python's convention: q * cn(b) + r is cn(a), |r| < |b|,  *)
(* and r is zero or has the sign of b.                                     *)
C2_FloorDivMod ==
    /\ (op = "mod" /\ b # 0) => res = IntNum(PyMod(a, b))
    /\ (op = "floordiv" /\ b # 0) => res = IntNum(PyFloorDiv(a, b))
    /\ op = "divmod" =>
         /\ res.q = IntNum(PyFloorDiv(a, b))
         /\ res.r = IntNum(PyMod(a, b))
         /\ res.back = IntNum(a)
         /\ QLt(QAbs(res.r.p.x), QInt(IAbs(b)))
         /\ res.r = zero \/ (QGt(res.r.p.x, Q0) <=> b > 0)

(* -5 by 3: the quotient rounds down to -2 and the remainder 1 is positive *)
C2_Witness ==
    /\ op = "divmod" /\ a = -5 /\ b = 3
    /\ res.q = IntNum(-2) /\ res.r = IntNum(1) /\ res.back = IntNum(-5)

(* C3: for a and b of any sign, cn(a) ^ cn(b) is the point (a ^ b, 0) of   *)
(* Python's signed XOR.                                                    *)
C3_XorIsSignedXor == op = "xor" => res = IntNum(PyXor(a, b))

(* cn(-1) ^ cn(1) is 0 where -1 ^ 1 is -2 *)
C3_Lost == op = "xor" /\ a = -1 /\ b = 1 /\ res = zero

(* C4: for a >= 0 and b >= 1, double_until_gt(cn(a), cn(b)) lies on the x  *)
(* axis, strictly right of a with strict=True, at or right of a with       *)
(* strict=False.                                                           *)
C4_DoubleUntilGt ==
    /\ (op = "double_until_gt" /\ a >= 0 /\ b >= 1)
         => (res.tag = "num" /\ res.p.y = Q0 /\ QGt(res.p.x, QInt(a)))
    /\ (op = "double_until_gt_nonstrict" /\ a >= 0 /\ b >= 1)
         => (res.tag = "num" /\ res.p.y = Q0 /\ ~QLt(res.p.x, QInt(a)))

(* double_until_gt(cn(1), cn(1), strict=True) returns 1, not above 1 *)
C4_NotAbove == op = "double_until_gt" /\ a = 1 /\ b = 1 /\ res = one

(* C5: cn(a) + cn(b) and cn(a) - cn(b) lie on the x axis at exactly a + b  *)
(* and a - b, for every sign combination, a = b, b = -a and zero operands  *)
(* included.                                                               *)
C5_AddSubExact ==
    /\ op = "add" => OnXAxis(res, a + b)
    /\ op = "sub" => OnXAxis(res, a - b)

(* 4 + (-4) is zero *)
C5_Witness == op = "add" /\ a = 4 /\ b = -4 /\ res = zero

(* C6: cn(a) * cn(b) lies on the x axis at exactly a * b: negative exactly *)
(* when one operand is negative and neither is zero, zero for a zero       *)
(* operand, the other operand for a factor one.                            *)
C6_MulExact ==
    op = "mul" =>
        /\ OnXAxis(res, a * b)
        /\ QLt(res.p.x, Q0) <=> ((a < 0) # (b < 0) /\ a # 0 /\ b # 0)
        /\ (a = 0 \/ b = 0) => res = zero
        /\ a = 1 => res = IntNum(b)
        /\ b = 1 => res = IntNum(a)

(* -3 times 4 is -12 *)
C6_Witness == op = "mul" /\ a = -3 /\ b = 4 /\ res = IntNum(-12)

(* C7: for i >= 1 and n >= 2, inv_mod(cn(i), cn(n)) is the v of 0..n-1     *)
(* with (v * i) mod n = 1 when gcd(i, n) = 1, also for i > n, and None     *)
(* when gcd(i, n) # 1.                                                     *)
C7_InvMod ==
    (op = "inv_mod" /\ a >= 1 /\ n >= 2) =>
        IF IGcd(a, n) = 1
        THEN /\ res.tag = "num"
             /\ res.p.y = Q0
             /\ res.p.x[2] = 1
             /\ res.p.x[1] \in 0..(n - 1)
             /\ (res.p.x[1] * a) % n = 1
        ELSE res = None

(* the inverse of 5 modulo 3 is 2 *)
C7_Witness == op = "inv_mod" /\ a = 5 /\ n = 3 /\ res = IntNum(2)

(* C8: inv_mod(i, n) with n zero raises ValueError for every i. *)
C8_InvModZeroRaises == (op = "inv_mod" /\ n = 0) => Raised(res)

(* inv_mod(cn(2), zero) falls off its end *)
C8_Absent == op = "inv_mod" /\ a = 2 /\ n = 0 /\ res = None

C10_SqrtExact ==
    (op = "sqrt" /\ a >= 0 /\ IIsSquare(a)) => res = IntNum(ISqrt(a))

(* cn(0).sqrt() meets a tangent line in one point and raises *)
C10_ZeroRaises == op = "sqrt" /\ a = 0 /\ res = ValueError

(* C11: for a of any sign and a shift count n >= 0, cn(a) >> n is the      *)
(* point (floor(a / 2^n), 0) and cn(a) << n is the point (a * 2^n, 0).     *)
C11_Shifts ==
    /\ op = "rshift" => res = IntNum(PyFloorDiv(a, IPow(2, n)))
    /\ op = "lshift" => res = IntNum(a * IPow(2, n))

(* -5 >> 1 rounds down to -3 *)
C11_Witness == op = "rshift" /\ a = -5 /\ n = 1 /\ res = IntNum(-3)

(* C12: for a >= 0 and b >= 0, xor_positive, and_positive and or_positive  *)
(* of cn(a) and cn(b) are the points (a ^ b, 0), (a & b, 0), (a | b, 0).   *)
C12_BitwisePositive ==
    (a >= 0 /\ b >= 0) =>
        /\ op = "xor_positive" => res = IntNum(NatXor(a, b))
        /\ op = "and_positive" => res = IntNum(NatAnd(a, b))
        /\ op = "or_positive" => res = IntNum(NatOr(a, b))

(* 5 & 3 keeps the one bit the operands share *)
C12_Witness == op = "and_positive" /\ a = 5 /\ b = 3 /\ res = IntNum(1)

(* C13: for a and b of any sign, gcd(cn(a), cn(b)) is the point            *)
(* (gcd(|a|, |b|), 0), never left of the origin; gcd(0, 0) is zero.        *)
C13_Gcd ==
    op = "gcd" =>
        /\ res = IntNum(IGcd(IAbs(a), IAbs(b)))
        /\ ~QLt(res.p.x, Q0)
        /\ (a = 0 /\ b = 0) => res = zero

(* gcd(-4, -2) is 2: the sign of the last divisor -2 is dropped *)
C13_Witness == op = "gcd" /\ a = -4 /\ b = -2 /\ res = IntNum(2)

(* C14: for every a and every exponent b >= 0, cn(a) ** cn(b) is the       *)
(* point (a^b, 0), with a ** 0 = one (0 ** 0 included) and a ** 1 = a; a   *)
(* negative exponent raises ValueError.                                    *)
C14_Pow ==
    op = "pow" =>
        IF b >= 0 THEN res = IntNum(IPow(a, b)) ELSE res = ValueError

(* 0 ** 0 is one *)
C14_Witness == op = "pow" /\ a = 0 /\ b = 0 /\ res = one

(* C15: for every a >= 0, cn(a).is_prime() is True exactly when a is       *)
(* prime; 0, 1, the even numbers other than 2 and the odd numbers with a   *)
(* divisor up to floor(sqrt(a)) are rejected.                              *)
C15_IsPrime == (op = "is_prime" /\ a >= 0) => res = Bool(IsPrimeInt(a))

(* 25 is rejected by its divisor 5 = floor(sqrt(25)) *)
C15_Witness == op = "is_prime" /\ a = 25 /\ res = Bool(FALSE)

C17_Negation ==
    op = "negation" =>
        /\ res.neg = IntNum(-a)
        /\ res.back = IntNum(a)
        /\ res.sum = zero
        /\ res.diff = zero
        /\ a = 0 => res.neg = zero

(* -(-cn(3)) passes through cn(-3) back to cn(3) *)
C17_Witness ==
    /\ op = "negation" /\ a = 3
    /\ res.neg = IntNum(-3) /\ res.back = IntNum(3) /\ res.sum = zero

(* C18: for every integer a, negative included, get_n(a) is the point      *)
(* (a, 0).                                                                 *)
C18_GetN == op = "get_n" => res = IntNum(a)

(* get_n(-5) builds 5 = 101b from its digits and negates it *)
C18_Witness == op = "get_n" /\ a = -5 /\ res = IntNum(-5)

(* C19: CasNums of equal coordinates that wrap distinct Point objects      *)
(* compare equal and hash alike, so a cached call is found again under an  *)
(* equal-valued argument.                                                  *)
C19_HashEq ==
    op = "hash_eq" =>
        /\ res.distinct
        /\ res.eq
        /\ res.hashes[1] = res.hashes[2]
        /\ res.hashes[1] = res.hashes[3]
        /\ res.hit

(* cn(3), its rebuilt copy and (cn(3) + cn(-4)) - cn(-4) share one hash *)
C19_Witness ==
    /\ op = "hash_eq" /\ a = 3 /\ b = -4
    /\ res.eq /\ res.hit
    /\ res.hashes = <<<<Q(3, 1), Q0>>, <<Q(3, 1), Q0>>, <<Q(3, 1), Q0>>>>

(* C20: Viewer._enqueue never blocks the producer and never lets the     *)
(* command queue hold more than queue_maxsize commands; when put_nowait  *)
(* finds the queue full, under drop_new the new command is discarded and *)
(* the queue is left as it was found, and under drop_oldest the oldest   *)
(* queued command is removed and the new command is appended (the queue  *)
(* left is a suffix of the one found, short of its head, with the new    *)
(* command at its end).                                                  *)
C20_Enqueue ==
    /\ Len(_cmd_q) <= queue_maxsize
    /\ ENABLED (Enqueue \/ DropOldest \/ PutAgain)
    /\ (last_call.full /\ drop_policy = "drop_new") =>
         last_call.left = last_call.seen
    /\ (last_call.full /\ drop_policy = "drop_oldest") =>
         \E k \in 1..Len(last_call.seen) :
             last_call.left =
                 Append(SubSeq(last_call.seen, k + 1, Len(last_call.seen)),
                        last_call.cmd[1])

(* a call under drop_oldest that found the queue full, took its oldest   *)
(* command and appended the new one                                      *)
C20_Witness ==
    /\ last_call.full
    /\ drop_policy = "drop_oldest"
    /\ last_call.seen = <<1, 2>>
    /\ last_call.left = <<2, 1>>

(* C21: the generation counter never decreases, Viewer.clear and the     *)
(* sink's C key each raise it by exactly one, and the sink acts on no    *)
(* command (adds no pt/ln/ci to its scene, obeys no clear or close)      *)
(* whose gen is smaller than the counter was when it dequeued it.        *)
C21_Generation ==
    /\ [][_gen' >= _gen]_vars
    /\ [][(Clear \/ KeyC) => _gen' = _gen + 1]_vars
    /\ [][(SinkAct /\ sink'.did # "continue") => sink.cmd.gen >= sink.was]_vars

(* the sink has passed over a command of a generation before the         *)
(* counter's                                                             *)
C21_Witness == sink.did = "continue" /\ _gen = 1 /\ scene = {}

(* C22: Circle.get_intersection of circles of radii r1, r2 about centres  *)
(* at distance D returns no point when D > r1 + r2 or D < |r1 - r2|,      *)
(* exactly one when D = r1 + r2, and two otherwise.                       *)
C22_Count ==
    (op = "circle_get_intersection") =>
        IF IAbs(a) > IAbs(b) + n \/ IAbs(a) < IAbs(IAbs(b) - n)
        THEN res = List(<<>>)
        ELSE res.tag = "list" /\
             Len(res.ret) = (IF IAbs(a) = IAbs(b) + n THEN 1 ELSE 2)

(* a circle of radius 1 inside one of radius 3, the centres 1 apart:      *)
(* two points are returned                                                *)
C22_Contained ==
    /\ op = "circle_get_intersection"
    /\ a = 1 /\ b = 3 /\ n = 1
    /\ res.tag = "list" /\ Len(res.ret) = 2

(* C23: Line.get_intersection of two lines whose determinant is zero      *)
(* returns the point at infinity Point(zoo, zoo), for which               *)
(* Point.is_at_inf is true.                                               *)
C23_ParallelAtInf ==
    (op = "line_get_intersection" /\ a = b) =>
        (res = Point(zoo, zoo) /\ is_at_inf(res))

(* two lines of slope 1 one unit apart: the name zoo is not bound in      *)
(* line.py and the call raises                                            *)
C23_NameError ==
    /\ op = "line_get_intersection"
    /\ a = 1 /\ b = 1 /\ n = 1
    /\ res = NameError

(* C24: in every turn of the loop of CasNum.__mod__ the amount removed    *)
(* from the remainder is the largest 2^k * |b| that is at most            *)
(* |remainder|, applied in the direction of the remainder's sign.         *)
C24_LargestBelow ==
    [][(op = "mod_loop" /\ op' = "mod_loop") =>
        /\ res'.to_rem =
               IntNum(LargestBelow(IAbs(b), IAbs(IntOf(res.remainder))))
        /\ IntOf(res'.remainder) =
               Moved(IntOf(res.remainder), IntOf(res'.to_rem))]_vars

(* C24 as amended: the amount removed is the smallest 2^k * |b| that is   *)
(* at least |remainder|, applied in the direction of the remainder's      *)
(* sign.                                                                  *)
C24_SmallestAbove ==
    [][(op = "mod_loop" /\ op' = "mod_loop") =>
        /\ res'.to_rem =
               IntNum(SmallestAbove(IAbs(b), IAbs(IntOf(res.remainder))))
        /\ IntOf(res'.remainder) =
               Moved(IntOf(res.remainder), IntOf(res'.to_rem))]_vars

(* 5 % 3 removes 6 in its first turn and leaves -1 *)
C24_Witness ==
    /\ op = "mod_loop" /\ a = 5 /\ b = 3
    /\ res.to_rem = IntNum(6)
    /\ res.remainder = IntNum(-1)

(* C26: for every a and every b # 0 the loop of CasNum.__mod__ ends:      *)
(* each turn makes |remainder| strictly smaller, every remainder on the   *)
(* way is congruent to a modulo |b|, and the loop is left with            *)
(* |remainder| < |b|.                                                     *)
C26_Terminates ==
    /\ [][(op = "mod_loop" /\ op' = "mod_loop") =>
            IAbs(IntOf(res'.remainder)) < IAbs(IntOf(res.remainder))]_vars
    /\ [](op = "mod_loop" => (IntOf(res.remainder) - a) % IAbs(b) = 0)
    /\ [][(op = "mod_loop" /\ op' = "mod_return") =>
            IAbs(IntOf(res.remainder)) < IAbs(b)]_vars
    /\ (op = "mod_loop") ~> (op = "mod_return")

(* 5 % 1 has left its loop after three turns (5, -3, 1, 0) *)
C26_Witness ==
    op = "mod_return" /\ a = 5 /\ b = 1 /\ res = IntNum(0)

C27_ClearReachesSink ==
    [](~(frame.at = "_enqueue_control" /\ frame.cmd[1].kind = "close")) =>
        \A g \in 1..MaxGen :
            (frame.at = "_enqueue_control" /\ frame.cmd[1].kind = "clear"
                                           /\ frame.cmd[1].gen = g)
                ~> [](\A e \in scene : e >= g)

(* the scene holds an element of generation 0 beside one of generation 1: *)
(* the queue was full and a draw command took the place of clear          *)
C27_ClearDropped == drop_policy = "drop_oldest" /\ scene = {0, 1}

(* C28: under drop_oldest, with the sink taking commands while the        *)
(* producer runs, every command passed to Viewer._enqueue is in the       *)
(* queue, at its end, when _enqueue returns.                              *)
C28_Enqueued ==
    (drop_policy = "drop_oldest" /\ enable_graphics /\ last_call.cmd # <<>>)
        => /\ last_call.left # <<>>
           /\ last_call.left[Len(last_call.left)] = last_call.cmd[1]

(* put_nowait found the queue full of 1 and 2, the sink took both before  *)
(* get_nowait, and _enqueue returned with command 1 in no queue           *)
C28_Lost ==
    /\ drop_policy = "drop_oldest" /\ enable_graphics
    /\ last_call = Outcome(1, TRUE, <<1, 2>>, <<>>)

(* C29: two Line objects that compare equal, by slope and intercept, have *)
(* equal hashes, whichever two points of the line each was built from.    *)
C29_LineHash ==
    (op = "line_hash_eq" /\ res.eq) => res.hashes[1] = res.hashes[2]

(* y = x built from (0, 0), (1, 1) and from (0, 0), (2, 2): equal lines   *)
(* of coefficients (-1, 1, 0) and (-2, 2, 0)                              *)
C29_UnequalHash ==
    /\ op = "line_hash_eq" /\ a = 1 /\ b = 2 /\ n = 0
    /\ res.eq
    /\ res.hashes = <<<<QInt(-1), Q1, Q0>>, <<QInt(-2), Q2, Q0>>>>

(* C30: CasNum.from_num(n) is the point (n, 0) for every integer n >= 0,  *)
(* the value of CasNum.get_n(n), and zero for every n < 0.                *)
C30_FromNum ==
    op = "from_num" =>
        /\ a >= 0 => res.from_num = IntNum(a) /\ res.from_num = res.get_n
        /\ a < 0 => res.from_num = IntNum(0)

(* five turns of generate_n *)
C30_Witness ==
    /\ op = "from_num" /\ a = 5
    /\ res.from_num = IntNum(5)
    /\ res.get_n = IntNum(5)

=============================================================================
